---- MODULE Spec2Model ----
(***************************************************************************)
(* Model of the InfluxDB cloud-event function: src/src/config.rs (startup, *)
(* type hints, coercion) and src/src/handler.rs (record building and the   *)
(* request handler).                                                       *)
(*                                                                         *)
(* Numbers are kept exact.  A magnitude is the set of the positions of its *)
(* one bits (42 = {1,3,5}; 12.5 = {3,2,-1}), so that a u64 is a subset of  *)
(* 0..63 and a finite f64 is a sign and a set of positions spanning at     *)
(* most 53 places.                                                         *)
(***************************************************************************)
EXTENDS Integers, Sequences, FiniteSets, TLC

VARIABLES
    \* ExpectedType::convert, one call
    hint, value, converted,
    \* add_to_query, one call
    dest, mappings, doc, pending, last, query, num, outcome,
    \* handle, one request after the other
    processor, event, pc, hquery, response, storeCalls, served,
    \* config / init, at startup
    env, todo, cur, fields, tags, initResult, appData, phase

convVars == <<hint, value, converted>>
buildVars == <<dest, mappings, doc, pending, last, query, num, outcome>>
handleVars == <<processor, event, pc, hquery, response, storeCalls, served>>
startVars == <<env, todo, cur, fields, tags, initResult, appData, phase>>
vars == <<convVars, buildVars, handleVars, startVars>>

----------------------------------------------------------------------------
(* Option and Result                                                       *)

None == [some |-> FALSE]
Some(x) == [some |-> TRUE, v |-> x]

Ok(x) == [ok |-> TRUE, v |-> x]
Err(kind, details) == [ok |-> FALSE, err |-> kind, details |-> details]

\* the text of an error, and the number a format! puts into it
Details(msg) == [msg |-> msg]
DetailsN(msg, n) == [msg |-> msg, n |-> n]

Max(S) == CHOOSE x \in S : \A y \in S : y <= x

----------------------------------------------------------------------------
(* serde_json::Value, as the handler and the coercion see it               *)

U64Bits == 64
F64MantissaBits == 53

JNull == [k |-> "Null"]
JArray == [k |-> "Array"]
JObject == [k |-> "Object"]
JBool(b) == [k |-> "Bool", b |-> b]
JString(s) == [k |-> "String", s |-> s]
\* serde_json's Number: PosInt(u64), NegInt(i64, always negative), Float(f64)
JPosInt(bits) == [k |-> "Number", n |-> "PosInt", neg |-> FALSE, bits |-> bits]
JNegInt(bits) == [k |-> "Number", n |-> "NegInt", neg |-> TRUE, bits |-> bits]
JFloat(neg, bits) == [k |-> "Number", n |-> "Float", neg |-> neg, bits |-> bits]

(* influxdb::Type *)
TBoolean(b) == [t |-> "Boolean", b |-> b]
TFloat(f) == [t |-> "Float", neg |-> f.neg, bits |-> f.bits]
TSignedInteger(i) == [t |-> "SignedInteger", neg |-> i.neg, bits |-> i.bits]
TUnsignedInteger(u) == [t |-> "UnsignedInteger", neg |-> FALSE, bits |-> u.bits]
TText(s) == [t |-> "Text", s |-> s]

ExpectedType == {"Boolean", "Float", "SignedInteger", "UnsignedInteger", "Text", "None"}

\* `n as f64` of an integer magnitude: round to nearest, ties to even, keeping
\* F64MantissaBits significant places.
RoundToF64(bits) ==
    IF bits = {} THEN {}
    ELSE LET shift == Max(bits) - (F64MantissaBits - 1)
         IN IF shift <= 0 THEN bits
            ELSE LET kept == {b \in bits : b >= shift}
                     half == (shift - 1) \in bits
                     rest == \E b \in bits : b < shift - 1
                     up == half /\ (rest \/ shift \in bits)
                     p == CHOOSE q \in shift..(Max(bits) + 1) :
                              /\ q \notin kept
                              /\ \A r \in shift..(q - 1) : r \in kept
                 IN IF up THEN {b \in kept : b > p} \cup {p} ELSE kept

as_bool(v) == IF v.k = "Bool" THEN Some(v.b) ELSE None

as_str(v) == IF v.k = "String" THEN Some(v.s) ELSE None

as_u64(v) ==
    IF v.k = "Number" /\ v.n = "PosInt"
    THEN Some([neg |-> FALSE, bits |-> v.bits])
    ELSE None

as_i64(v) ==
    IF v.k # "Number" THEN None
    ELSE IF v.n = "PosInt"
         THEN IF (U64Bits - 1) \in v.bits THEN None
              ELSE Some([neg |-> FALSE, bits |-> v.bits])
         ELSE IF v.n = "NegInt" THEN Some([neg |-> TRUE, bits |-> v.bits])
              ELSE None

as_f64(v) ==
    IF v.k # "Number" THEN None
    ELSE IF v.n = "Float" THEN Some([neg |-> v.neg, bits |-> v.bits])
         ELSE Some([neg |-> v.neg, bits |-> RoundToF64(v.bits)])

\* Option::map(Type::Boolean), ... : the variant t of influxdb::Type around x
Variant(t, x) ==
    CASE t = "Boolean" -> TBoolean(x)
      [] t = "Text" -> TText(x)
      [] t = "UnsignedInteger" -> TUnsignedInteger(x)
      [] t = "SignedInteger" -> TSignedInteger(x)
      [] t = "Float" -> TFloat(x)

MapOpt(o, t) == IF o.some THEN Some(Variant(t, o.v)) ELSE None

OrElse(o, p) == IF o.some THEN o ELSE p

accept(v) == IF v.some THEN Ok(v.v) ELSE Err("PayloadParseError", Details(""))

\* convert with the inferred numeric order turned round: integers first
convertIntegerFirst(type, v) ==
    CASE type = "Boolean" -> accept(MapOpt(as_bool(v), "Boolean"))
      [] type = "Text" -> accept(MapOpt(as_str(v), "Text"))
      [] type = "UnsignedInteger" -> accept(MapOpt(as_u64(v), "UnsignedInteger"))
      [] type = "SignedInteger" -> accept(MapOpt(as_i64(v), "SignedInteger"))
      [] type = "Float" -> accept(MapOpt(as_f64(v), "Float"))
      [] type = "None" ->
           CASE v.k = "String" -> Ok(TText(v.s))
             [] v.k = "Bool" -> Ok(TBoolean(v.b))
             [] v.k = "Number" ->
                  LET r == OrElse(MapOpt(as_i64(v), "SignedInteger"),
                             OrElse(MapOpt(as_u64(v), "UnsignedInteger"),
                                    MapOpt(as_f64(v), "Float")))
                  IN IF r.some THEN Ok(r.v)
                     ELSE Err("PayloadParseError", Details("Unknown numeric type"))
             [] OTHER -> Err("PayloadParseError", Details("Invalid value type selected"))

convert(type, v) ==
    CASE type = "Boolean" -> accept(MapOpt(as_bool(v), "Boolean"))
      [] type = "Text" -> accept(MapOpt(as_str(v), "Text"))
      [] type = "UnsignedInteger" -> accept(MapOpt(as_u64(v), "UnsignedInteger"))
      [] type = "SignedInteger" -> accept(MapOpt(as_i64(v), "SignedInteger"))
      [] type = "Float" -> accept(MapOpt(as_f64(v), "Float"))
      [] type = "None" ->
           CASE v.k = "String" -> Ok(TText(v.s))
             [] v.k = "Bool" -> Ok(TBoolean(v.b))
             [] v.k = "Number" ->
                  LET r == OrElse(MapOpt(as_f64(v), "Float"),
                             OrElse(MapOpt(as_i64(v), "SignedInteger"),
                                    MapOpt(as_u64(v), "UnsignedInteger")))
                  IN IF r.some THEN Ok(r.v)
                     ELSE Err("PayloadParseError", Details("Unknown numeric type"))
             [] OTHER -> Err("PayloadParseError", Details("Invalid value type selected"))

----------------------------------------------------------------------------
(* The JSON values a coercion is explored on                               *)

\* Places a magnitude may have a one bit in: 1, 2, 2^53, 2^63 and sums.
BitPool == {0, 1, F64MantissaBits, U64Bits - 1}

Magnitudes == SUBSET BitPool

\* a negative i64: 1 .. 2^63
NegMagnitudes == {m \in Magnitudes : m # {} /\ ((U64Bits - 1) \in m => m = {U64Bits - 1})}

\* 12.5, -0.5, 42.0, 2^53
Floats == { [neg |-> FALSE, bits |-> {3, 2, -1}], [neg |-> TRUE, bits |-> {-1}],
            [neg |-> FALSE, bits |-> {5, 3, 1}], [neg |-> FALSE, bits |-> {F64MantissaBits}] }

Strings == {"abc", "42"}

JsonNumbers ==
    {JPosInt(m) : m \in Magnitudes} \cup {JPosInt({5, 3, 1})}
        \cup {JNegInt(m) : m \in NegMagnitudes}
        \cup {JFloat(f.neg, f.bits) : f \in Floats}

JsonValues ==
    {JNull, JArray, JObject} \cup {JBool(b) : b \in BOOLEAN}
        \cup {JString(s) : s \in Strings} \cup JsonNumbers

NotStarted == [k |-> "NotStarted"]

----------------------------------------------------------------------------
(* One call of ExpectedType::convert                                       *)

ConvIdle ==
    /\ hint = "None"
    /\ value = JNull
    /\ converted = NotStarted

ConvInit ==
    /\ hint \in ExpectedType
    /\ value \in JsonValues
    /\ converted = NotStarted

Convert ==
    /\ converted = NotStarted
    /\ converted' = convert(hint, value)
    /\ UNCHANGED <<hint, value>>
    /\ UNCHANGED <<buildVars, handleVars, startVars>>

----------------------------------------------------------------------------
(* Record building: add_to_query, add_values, add_tags                     *)

MaxMappings == 2
MaxMatches == 2

NamePool == <<"temp", "amount", "source", "extra">>

\* destination names, the keys of Processor.fields / Processor.tags
Names == {NamePool[i] : i \in 1..MaxMappings}

\* Path: the expression text stands for its compiled form too
Path(path, type) == [path |-> path, type |-> type]

PathOf(name) == "$." \o name

\* what one compiled path selects from one document
DocValues ==
    { JString("abc"), JPosInt({5, 3, 1}), JNegInt({1, 0}),
      JFloat(FALSE, {3, 2, -1}), JNull }

ManyMatches(n) == [i \in 1..n |-> IF i % 2 = 1 THEN JPosInt({5, 3, 1}) ELSE JString("abc")]

Selections ==
    {Ok(<<>>)} \cup {Ok(<<v>>) : v \in DocValues}
        \cup {Ok(ManyMatches(n)) : n \in 2..MaxMatches}
        \cup {Err("JsonPathError", Details("evaluator message"))}

\* A document, seen through the paths of the mapping set: what each selects.
Documents == [{PathOf(n) : n \in Names} -> Selections]

select(path, json) == json[path.path]

\* WriteQuery: add_field and add_tag push onto a vector
EmptyQuery == [fields |-> <<>>, tags |-> <<>>]

add_field(q, field, v) == [q EXCEPT !.fields = Append(@, <<field, v>>)]

add_tag(q, field, v) == [q EXCEPT !.tags = Append(@, <<field, v>>)]

Apply(into, q, field, v) ==
    IF into = "field" THEN add_field(q, field, v) ELSE add_tag(q, field, v)

\* the closure without its num += 1
CountForgets(st, field, v, into) ==
    [query |-> Apply(into, st.query, field, v), num |-> st.num]

\* the closure f of add_to_query: num += 1; f(query, field, value)
Count(st, field, v, into) ==
    [query |-> Apply(into, st.query, field, v), num |-> st.num + 1]

\* no value taken for a failure
NoValueFails(st, field, path, sel, into) ==
    Err("SelectorError", Details("Selector found no value"))

\* [] => Ok(query)
NoValue(st, field, path, sel, into) == Ok(st)

\* [v] => Ok(f(query, field, path.r#type.convert(v, path)?))
SingleValue(st, field, path, sel, into) ==
    LET c == convert(path.type, sel[1])
    IN IF c.ok THEN Ok(Count(st, field, c.v, into)) ELSE c

\* several values resolved by taking the first
MultipleValuesTakesFirst(st, field, path, sel, into) ==
    SingleValue(st, field, path, sel, into)

\* [..] => Err(ServiceError::SelectorError { .. sel.len() })
MultipleValues(st, field, path, sel, into) ==
    Err("SelectorError", DetailsN("Selector found more than one value", Len(sel)))

\* The body of the loop of add_to_query for one (field, path): the query and
\* the count after it, or the error a ? operator is about to return.
Visit(st, field, path, json, into) ==
    LET sel == select(path, json)
    IN IF ~sel.ok THEN Err("SelectorError", sel.details)
       ELSE CASE Len(sel.v) = 0 -> NoValue(st, field, path, sel.v, into)
              [] Len(sel.v) = 1 -> SingleValue(st, field, path, sel.v, into)
              [] OTHER -> MultipleValues(st, field, path, sel.v, into)

\* an error that ends the loop and returns what was accumulated so far
RaiseKeepsPartial(st, e) == Ok(st)

\* the ? operator: add_to_query returns the error, and what it had
\* accumulated in st is dropped
Raise(st, e) == e

\* add_to_query, iterating the map in the order `order`
RECURSIVE Iterate(_, _, _, _, _)
Iterate(st, order, map, json, into) ==
    IF order = <<>> THEN Ok(st)
    ELSE LET r == Visit(st, Head(order), map[Head(order)], json, into)
         IN IF r.ok THEN Iterate(r.v, Tail(order), map, json, into)
            ELSE Raise(st, r)

add_to_query(q, map, json, into, order) ==
    Iterate([query |-> q, num |-> 0], order, map, json, into)

add_values(q, proc, json, order) == add_to_query(q, proc.fields, json, "field", order)

add_tags(q, proc, json, order) == add_to_query(q, proc.tags, json, "tag", order)

\* the orders a HashMap with these keys may be iterated in
Orders(keys) ==
    {o \in [1..Cardinality(keys) -> keys] : \A i, j \in 1..Cardinality(keys) : o[i] = o[j] => i = j}

----------------------------------------------------------------------------
(* One call of add_to_query, a mapping at a time                           *)

\* the hints the mappings of an explored set carry
TypePool == {"None", "Float", "UnsignedInteger"}

NoField == ""

BuildIdle ==
    /\ dest = "field"
    /\ mappings = <<>>
    /\ doc = <<>>
    /\ pending = {}
    /\ last = NoField
    /\ query = EmptyQuery
    /\ num = 0
    /\ outcome = NotStarted

\* add_values runs over Processor.fields, add_tags over Processor.tags, whose
\* paths all carry ExpectedType::None (config.rs, init)
BuildInit ==
    /\ dest \in {"field", "tag"}
    /\ mappings \in {[n \in Names |-> Path(PathOf(n), t[n])] :
                        t \in [Names -> IF dest = "tag" THEN {"None"} ELSE TypePool]}
    /\ doc \in Documents
    /\ pending = Names
    /\ last = NoField
    /\ query = EmptyQuery
    /\ num = 0
    /\ outcome = NotStarted

\* one turn of the loop: the map hands out any key not yet visited
VisitNext(field) ==
    /\ outcome = NotStarted
    /\ field \in pending
    /\ last' = field
    /\ LET r == Visit([query |-> query, num |-> num], field, mappings[field], doc, dest)
       IN \/ /\ r.ok
             /\ query' = r.v.query
             /\ num' = r.v.num
             /\ pending' = pending \ {field}
             /\ UNCHANGED outcome
          \/ /\ ~r.ok
             /\ outcome' = Raise([query |-> query, num |-> num], r)
             /\ UNCHANGED <<query, num, pending>>
    /\ UNCHANGED <<dest, mappings, doc>>
    /\ UNCHANGED <<convVars, handleVars, startVars>>

\* the loop is over: Ok((query, num))
Return ==
    /\ outcome = NotStarted
    /\ pending = {}
    /\ outcome' = Ok([query |-> query, num |-> num])
    /\ UNCHANGED <<dest, mappings, doc, pending, last, query, num>>
    /\ UNCHANGED <<convVars, handleVars, startVars>>

----------------------------------------------------------------------------
(* The request handler: handle, parse_payload                              *)

MaxRequests == 2

TagNames == {"source"}

\* cloudevents Data: Json(Value), String(text), Binary(bytes); text and bytes
\* either encode a document or are not JSON at all
DataJson(d) == [kind |-> "Json", json |-> Ok(d)]
DataString(t) == [kind |-> "String", json |-> t]
DataBinary(t) == [kind |-> "Binary", json |-> t]
DataAbsent == [kind |-> "Absent", json |-> Err("serde_json::Error", Details("no data"))]

NotJson == Err("serde_json::Error", Details("expected value at line 1 column 1"))

\* serde_json::from_str / from_slice
from_text(t) == t

parse_payload(data) ==
    CASE data.kind = "Json" -> Ok(data.json.v)
      [] data.kind \in {"String", "Binary"} ->
           LET r == from_text(data.json)
           IN IF r.ok THEN r ELSE Err("PayloadParseError", r.details)
      [] OTHER -> Err("PayloadParseError", Details("Unknown event payload"))

\* what the field paths select from a payload, the tag paths from the envelope
PayloadSelections ==
    { Ok(<<>>), Ok(<<JPosInt({5, 3, 1})>>), Ok(<<JNegInt({1, 0})>>), Ok(ManyMatches(2)) }

EnvelopeSelections ==
    { Ok(<<>>), Ok(<<JString("abc")>>), Ok(<<JNull>>), Ok(ManyMatches(2)) }

Payloads == [{PathOf(n) : n \in Names} -> PayloadSelections]

Envelopes == [{PathOf(n) : n \in TagNames} -> EnvelopeSelections]

Datas ==
    {DataAbsent, DataString(NotJson), DataBinary(NotJson)}
        \cup {DataJson(d) : d \in Payloads}
        \cup {DataString(Ok(d)) : d \in Payloads}
        \cup {DataBinary(Ok(d)) : d \in Payloads}

Events == [data : Datas, envelope : Envelopes]

NoEvent == [data |-> DataAbsent, envelope |-> [p \in {PathOf(n) : n \in TagNames} |-> Ok(<<>>)]]

Processors ==
    { [fields |-> [n \in Names |-> Path(PathOf(n), t[n])],
       tags |-> [n \in TagNames |-> Path(PathOf(n), "None")]] :
      t \in [Names -> {"None", "UnsignedInteger"}] }

NoResponse == [status |-> "none"]
Failure(e) == [status |-> "Error", err |-> e.err]
NoContent == [status |-> "NoContent"]
Accepted == [status |-> "Accepted"]
InternalServerError(body) == [status |-> "InternalServerError", body |-> body]

\* what handle has done when it returns without calling the store client
Returned(resp) ==
    [pc |-> "done", response |-> resp, query |-> EmptyQuery, calls |-> 0]

\* the store client called whatever the count
ExecuteAlways(q, n) ==
    [pc |-> "awaiting", response |-> NoResponse, query |-> q, calls |-> 1]

\* handle from `if num > 0` on, up to its only await, client.query
Execute(q, n) ==
    IF n > 0
    THEN [pc |-> "awaiting", response |-> NoResponse, query |-> q, calls |-> 1]
    ELSE Returned(NoContent)

\* let (query, _) = add_tags(query, &processor, &event_json)?;
WithTags(n, tv) == IF tv.ok THEN Execute(tv.v.query, n) ELSE Returned(Failure(tv))

\* let (query, num) = add_values(query, &processor, &json)?;
WithValues(proc, ev, to, fv) ==
    IF fv.ok
    THEN WithTags(fv.v.num, add_tags(fv.v.query, proc, ev.envelope, to))
    ELSE Returned(Failure(fv))

\* let json = parse_payload(data)?;
WithPayload(proc, ev, fo, to, json) ==
    IF json.ok
    THEN WithValues(proc, ev, to, add_values(EmptyQuery, proc, json.v, fo))
    ELSE Returned(Failure(json))

\* handle up to its only await: the response it returns, or the query it
\* hands to the store client.  fo and to are the orders the two maps are
\* iterated in.
Handle(proc, ev, fo, to) == WithPayload(proc, ev, fo, to, parse_payload(ev.data))

HandleIdle ==
    /\ processor = [fields |-> <<>>, tags |-> <<>>]
    /\ event = NoEvent
    /\ pc = "idle"
    /\ hquery = EmptyQuery
    /\ response = NoResponse
    /\ storeCalls = 0
    /\ served = 0

HandleInit ==
    /\ processor \in Processors
    /\ event = NoEvent
    /\ pc = "idle"
    /\ hquery = EmptyQuery
    /\ response = NoResponse
    /\ storeCalls = 0
    /\ served = 0

\* a request arrives and handle runs to its await or to its return
Receive(ev, fo, to) ==
    /\ pc = "idle"
    /\ served < MaxRequests
    /\ LET h == Handle(processor, ev, fo, to)
       IN /\ pc' = h.pc
          /\ response' = h.response
          /\ hquery' = h.query
          /\ storeCalls' = h.calls
    /\ event' = ev
    /\ served' = served + 1
    /\ UNCHANGED processor
    /\ UNCHANGED <<convVars, buildVars, startVars>>

\* client.query(&query).await returns
StoreReply(result) ==
    /\ pc = "awaiting"
    /\ pc' = "done"
    /\ response' = IF result.ok THEN Accepted ELSE InternalServerError(result.details.msg)
    /\ UNCHANGED <<processor, event, hquery, storeCalls, served>>
    /\ UNCHANGED <<convVars, buildVars, startVars>>

\* handle has returned its response; the request's task and its record are gone
Finish ==
    /\ pc = "done"
    /\ pc' = "idle"
    /\ event' = NoEvent
    /\ hquery' = EmptyQuery
    /\ response' = NoResponse
    /\ storeCalls' = 0
    /\ UNCHANGED <<processor, served>>
    /\ UNCHANGED <<convVars, buildVars, startVars>>

StoreResults == {Ok("written"), Err("influxdb::Error", Details("connection refused"))}

----------------------------------------------------------------------------
(* Startup: config, init, TryFrom<String> for ExpectedType                 *)
(*                                                                         *)
(* Text is a sequence of characters; in a key of the environment the       *)
(* prefixes TYPE_, FIELD_ and TAG_ are one element each.                   *)

UpperCase == <<"A", "B", "C", "D", "E", "F", "G", "H", "I", "J", "K", "L", "M",
               "N", "O", "P", "Q", "R", "S", "T", "U", "V", "W", "X", "Y", "Z">>

LowerCase == <<"a", "b", "c", "d", "e", "f", "g", "h", "i", "j", "k", "l", "m",
               "n", "o", "p", "q", "r", "s", "t", "u", "v", "w", "x", "y", "z">>

LowerChar(c) ==
    IF \E i \in DOMAIN UpperCase : UpperCase[i] = c
    THEN LowerCase[CHOOSE i \in DOMAIN UpperCase : UpperCase[i] = c]
    ELSE c

UpperChar(c) ==
    IF \E i \in DOMAIN LowerCase : LowerCase[i] = c
    THEN UpperCase[CHOOSE i \in DOMAIN LowerCase : LowerCase[i] = c]
    ELSE c

to_lowercase(s) == [i \in 1..Len(s) |-> LowerChar(s[i])]

to_uppercase(s) == [i \in 1..Len(s) |-> UpperChar(s[i])]

Capitalized(s) == [i \in 1..Len(s) |-> IF i = 1 THEN UpperChar(s[i]) ELSE s[i]]

\* the keywords matched without lower-casing the hint first
try_fromCaseSensitive(v) ==
    LET l == v
    IN CASE l \in {<<"b", "o", "o", "l">>, <<"b", "o", "o", "l", "e", "a", "n">>} ->
              Ok("Boolean")
         [] l \in {<<"f", "l", "o", "a", "t">>, <<"n", "u", "m", "b", "e", "r">>} ->
              Ok("Float")
         [] l \in {<<"i", "n", "t">>, <<"i", "n", "t", "e", "g", "e", "r">>} ->
              Ok("SignedInteger")
         [] l \in {<<"u", "i", "n", "t">>, <<"u", "n", "s", "i", "g", "n", "e", "d">>} ->
              Ok("UnsignedInteger")
         [] l \in {<<"s", "t", "r", "i", "n", "g">>, <<"t", "e", "x", "t">>} ->
              Ok("Text")
         [] l \in {<<>>, <<"n", "o", "n", "e">>} -> Ok("None")
         [] OTHER -> Err("UnknownType", Details("Unknown type"))

\* impl TryFrom<String> for ExpectedType
try_from(v) ==
    LET l == to_lowercase(v)
    IN CASE l \in {<<"b", "o", "o", "l">>, <<"b", "o", "o", "l", "e", "a", "n">>} ->
              Ok("Boolean")
         [] l \in {<<"f", "l", "o", "a", "t">>, <<"n", "u", "m", "b", "e", "r">>} ->
              Ok("Float")
         [] l \in {<<"i", "n", "t">>, <<"i", "n", "t", "e", "g", "e", "r">>} ->
              Ok("SignedInteger")
         [] l \in {<<"u", "i", "n", "t">>, <<"u", "n", "s", "i", "g", "n", "e", "d">>} ->
              Ok("UnsignedInteger")
         [] l \in {<<"s", "t", "r", "i", "n", "g">>, <<"t", "e", "x", "t">>} ->
              Ok("Text")
         [] l \in {<<>>, <<"n", "o", "n", "e">>} -> Ok("None")
         [] OTHER -> Err("UnknownType", Details("Unknown type"))

\* std::env::var: the value, or VarError::NotPresent
env_var(e, key) ==
    IF key \in DOMAIN e THEN Ok(e[key]) ELSE Err("VarError", Details("NotPresent"))

\* impl TryFrom<Result<String, VarError>> for ExpectedType
try_from_var(r) == IF r.ok THEN try_from(r.v) ELSE Ok("None")

strip_prefix(key, prefix) ==
    IF Len(key) >= Len(prefix) /\ SubSeq(key, 1, Len(prefix)) = prefix
    THEN Some(SubSeq(key, Len(prefix) + 1, Len(key)))
    ELSE None

\* jsonpath_lib::Compiled::compile
ValidPaths == {<<"$.value">>, <<"$.other">>, <<"$.metadata.src">>}

compile(v) ==
    IF v \in ValidPaths THEN Ok(v)
    ELSE Err("PathSyntaxError", Details("Failed to parse JSON path"))

\* the body of the loop of init for one (key, value) of std::env::vars():
\* the two maps after it, or the error the ? operators return
InitEntry(maps, e, key, v) ==
    LET field == strip_prefix(key, <<"FIELD_">>)
        tag == strip_prefix(key, <<"TAG_">>)
    IN IF field.some
       THEN LET compiled == compile(v)
                expected == try_from_var(env_var(e, <<"TYPE_", "FIELD_">> \o field.v))
            IN IF ~compiled.ok THEN compiled
               ELSE IF ~expected.ok THEN expected
               ELSE Ok([maps EXCEPT !.fields =
                          [n \in DOMAIN @ \cup {to_lowercase(field.v)} |->
                              IF n = to_lowercase(field.v) THEN Path(v, expected.v)
                              ELSE @[n]]])
       ELSE IF tag.some
            THEN LET compiled == compile(v)
                 IN IF ~compiled.ok THEN compiled
                    ELSE Ok([maps EXCEPT !.tags =
                               [n \in DOMAIN @ \cup {to_lowercase(tag.v)} |->
                                   IF n = to_lowercase(tag.v) THEN Path(v, "None")
                                   ELSE @[n]]])
            ELSE Ok(maps)

\* The environments a start is explored in.
Keywords ==
    { <<"b", "o", "o", "l">>, <<"b", "o", "o", "l", "e", "a", "n">>,
      <<"f", "l", "o", "a", "t">>, <<"n", "u", "m", "b", "e", "r">>,
      <<"i", "n", "t">>, <<"i", "n", "t", "e", "g", "e", "r">>,
      <<"u", "i", "n", "t">>, <<"u", "n", "s", "i", "g", "n", "e", "d">>,
      <<"s", "t", "r", "i", "n", "g">>, <<"t", "e", "x", "t">>,
      <<"n", "o", "n", "e">>, <<>> }

OtherWords ==
    { <<"d", "o", "u", "b", "l", "e">>, <<"i", "6", "4">>, <<"i", "n", "t", " ">>,
      <<"b", "o", "o", "l", "s">>, <<"u", "n", "s", "i", "g", "n">>, <<"n", "u", "l", "l">> }

HintPool ==
    UNION {{w, to_uppercase(w), Capitalized(w)} : w \in Keywords \cup OtherWords}

FieldKey == <<"FIELD_", "T", "e", "m", "p">>
FieldKeyUpper == <<"FIELD_", "T", "E", "M", "P">>
TagKey == <<"TAG_", "S", "r", "c">>
TypeKey == <<"TYPE_", "FIELD_", "T", "e", "m", "p">>
TagTypeKey == <<"TYPE_", "FIELD_", "S", "r", "c">>
OtherKey == <<"H", "O", "M", "E">>

BadPath == <<"$..[">>

\* each key is set or not; the function holds those that are
EnvChoices ==
    [ f : {<<"$.value">>, BadPath},
      t : {None} \cup {Some(h) : h \in HintPool},
      u : {None, Some(<<"$.other">>)},
      g : {None, Some(<<"$.metadata.src">>), Some(BadPath)},
      gt : {None, Some(<<"i", "n", "t">>)} ]

EnvOf(c) ==
    LET keys == {FieldKey, OtherKey}
                  \cup (IF c.t.some THEN {TypeKey} ELSE {})
                  \cup (IF c.u.some THEN {FieldKeyUpper} ELSE {})
                  \cup (IF c.g.some THEN {TagKey} ELSE {})
                  \cup (IF c.gt.some THEN {TagTypeKey} ELSE {})
    IN [k \in keys |->
          CASE k = FieldKey -> c.f
            [] k = OtherKey -> <<"/", "r", "o", "o", "t">>
            [] k = TypeKey -> c.t.v
            [] k = FieldKeyUpper -> c.u.v
            [] k = TagKey -> c.g.v
            [] k = TagTypeKey -> c.gt.v]

NoEntry == <<>>

EmptyMap == [n \in {} |-> Path(<<>>, "None")]

StartIdle ==
    /\ env = <<>>
    /\ todo = {}
    /\ cur = NoEntry
    /\ fields = EmptyMap
    /\ tags = EmptyMap
    /\ initResult = NotStarted
    /\ appData = None
    /\ phase = "idle"

StartInit ==
    /\ env \in {EnvOf(c) : c \in EnvChoices}
    /\ todo = DOMAIN env
    /\ cur = NoEntry
    /\ fields = EmptyMap
    /\ tags = EmptyMap
    /\ initResult = NotStarted
    /\ appData = None
    /\ phase = "init"

\* one turn of the loop of init over std::env::vars(), in any order
InitStep(key) ==
    /\ phase = "init"
    /\ initResult = NotStarted
    /\ key \in todo
    /\ cur' = key
    /\ todo' = todo \ {key}
    /\ LET r == InitEntry([fields |-> fields, tags |-> tags], env, key, env[key])
       IN \/ /\ r.ok
             /\ fields' = r.v.fields
             /\ tags' = r.v.tags
             /\ UNCHANGED initResult
          \/ /\ ~r.ok
             /\ initResult' = r
             /\ UNCHANGED <<fields, tags>>
    /\ UNCHANGED <<env, appData, phase>>
    /\ UNCHANGED <<convVars, buildVars, handleVars>>

\* init returns Ok((processor, max_json_payload_size))
InitReturn ==
    /\ phase = "init"
    /\ initResult = NotStarted
    /\ todo = {}
    /\ initResult' = Ok([fields |-> fields, tags |-> tags])
    /\ UNCHANGED <<env, todo, cur, fields, tags, appData, phase>>
    /\ UNCHANGED <<convVars, buildVars, handleVars>>

\* config matches on what init returned: cfg.data(processor), or log::error!
\* and nothing else; either way config returns to the application builder
Config ==
    /\ phase = "init"
    /\ initResult # NotStarted
    /\ appData' = IF initResult.ok THEN Some(initResult.v) ELSE None
    /\ phase' = "configured"
    /\ UNCHANGED <<env, todo, cur, fields, tags, initResult>>
    /\ UNCHANGED <<convVars, buildVars, handleVars>>

----------------------------------------------------------------------------
(* Specifications                                                          *)

\* coercion of one value
ConvNext == Convert

InitConvert == ConvInit /\ BuildIdle /\ HandleIdle /\ StartIdle

SpecConvert == InitConvert /\ [][ConvNext]_vars

\* one record-building call
BuildNext ==
    \/ \E field \in Names : VisitNext(field)
    \/ Return

InitBuild == ConvIdle /\ BuildInit /\ HandleIdle /\ StartIdle

SpecBuild == InitBuild /\ [][BuildNext]_vars

\* request handling
Next ==
    \/ \E ev \in Events, fo \in Orders(Names), to \in Orders(TagNames) :
           Receive(ev, fo, to)
    \/ \E result \in StoreResults : StoreReply(result)
    \/ Finish

Init == ConvIdle /\ BuildIdle /\ HandleInit /\ StartIdle

Spec == Init /\ [][Next]_vars

\* startup
StartNext ==
    \/ \E key \in DOMAIN env : InitStep(key)
    \/ InitReturn
    \/ Config

InitStart == ConvIdle /\ BuildIdle /\ HandleIdle /\ StartInit

SpecStart == InitStart /\ [][StartNext]_vars

----------------------------------------------------------------------------
(* Coercion: properties of ExpectedType::convert, under SpecConvert        *)

\* the number a JSON value or a typed value denotes: zero has no sign
Denotes(x) == [neg |-> x.neg /\ x.bits # {}, bits |-> x.bits]

IsInteger(x) == \A b \in x.bits : b >= 0

\* whether the number a JSON value denotes exists in the representation
Representable(type, v) ==
    /\ v.k = "Number"
    /\ CASE type = "UnsignedInteger" ->
              /\ IsInteger(v)
              /\ ~Denotes(v).neg
              /\ \A b \in v.bits : b < U64Bits
         [] type = "SignedInteger" ->
              /\ IsInteger(v)
              /\ \/ \A b \in v.bits : b < U64Bits - 1
                 \/ Denotes(v).neg /\ v.bits = {U64Bits - 1}
         [] type = "Float" ->
              \A a, b \in v.bits : a - b < F64MantissaBits
         [] OTHER -> FALSE

\* the JSON shape an explicit hint asks for
Fits(type, v) ==
    CASE type = "Boolean" -> v.k = "Bool"
      [] type = "Text" -> v.k = "String"
      [] OTHER -> Representable(type, v)

\* the typed value says what the JSON value said
Lossless(v, t) ==
    CASE t.t = "Boolean" -> v.k = "Bool" /\ t.b = v.b
      [] t.t = "Text" -> v.k = "String" /\ t.s = v.s
      [] OTHER -> v.k = "Number" /\ Denotes(t) = Denotes(v)

\* C6: with an explicit hint, coercion succeeds only on a JSON value of the
\* hint's shape (a boolean, a string, a number representable in the hinted
\* numeric representation); every other (hint, value) pair fails with
\* PayloadParseError, and a success never yields a lossy value.
C6_ExplicitHintStrict ==
    (converted # NotStarted /\ hint # "None") =>
        /\ ~Fits(hint, value) => (~converted.ok /\ converted.err = "PayloadParseError")
        /\ converted.ok => (converted.v.t = hint /\ Lossless(value, converted.v))

\* C7: with the hint None, a string yields Text of that string, a boolean
\* Boolean of that boolean, a number Float whenever as_f64 gives one (also
\* for 42), SignedInteger only when it gives none and UnsignedInteger only
\* when as_i64 gives none either; null, an array or an object fails with
\* PayloadParseError.
C7_InferredDispatch ==
    (converted # NotStarted /\ hint = "None") =>
        CASE value.k = "String" -> converted = Ok(TText(value.s))
          [] value.k = "Bool" -> converted = Ok(TBoolean(value.b))
          [] value.k = "Number" ->
               /\ converted.ok
               /\ as_f64(value).some => converted.v = TFloat(as_f64(value).v)
               /\ converted.v.t = "SignedInteger" => ~as_f64(value).some
               /\ converted.v.t = "UnsignedInteger" =>
                      (~as_f64(value).some /\ ~as_i64(value).some)
               /\ converted.v.t \in {"Float", "SignedInteger", "UnsignedInteger"}
          [] OTHER -> ~converted.ok /\ converted.err = "PayloadParseError"

\* the integral number 42, inferred, has landed as Float
C7_Witness ==
    /\ hint = "None"
    /\ value = JPosInt({5, 3, 1})
    /\ converted = Ok([t |-> "Float", neg |-> FALSE, bits |-> {5, 3, 1}])

----------------------------------------------------------------------------
(* Record building: properties of add_to_query, under SpecBuild            *)

\* what the mapping named n selects from the document
Selected(n) == doc[mappings[n].path]

MatchCount(n) == IF Selected(n).ok THEN Len(Selected(n).v) ELSE -1

Coerced(n) == convert(mappings[n].type, Selected(n).v[1])

\* n matched exactly one value and the value coerced
Contributes(n) == MatchCount(n) = 1 /\ Coerced(n).ok

\* the error the mapping named n raises, when it raises one
ErrorsOf(n) ==
    CASE ~Selected(n).ok -> {Err("SelectorError", Selected(n).details)}
      [] MatchCount(n) >= 2 ->
           {Err("SelectorError", DetailsN("Selector found more than one value", MatchCount(n)))}
      [] MatchCount(n) = 1 /\ ~Coerced(n).ok -> {Coerced(n)}
      [] OTHER -> {}

\* the part of a record this call writes: payload for fields, metadata for tags
Written(q) == IF dest = "field" THEN q.fields ELSE q.tags

Untouched(q) == IF dest = "field" THEN q.tags ELSE q.fields

Keys(w) == {w[i][1] : i \in DOMAIN w}

Entries(w) == {w[i] : i \in DOMAIN w}

Finished == outcome # NotStarted

NoEvaluatorFailure == \A n \in Names : Selected(n).ok

\* C3 as stated: if any mapping selects two or more values, record building
\* fails with SelectorError stating the match count, and returns no record.
C3_ManyMatchesSelectorError ==
    (Finished /\ NoEvaluatorFailure /\ \E n \in Names : MatchCount(n) >= 2) =>
        /\ ~outcome.ok
        /\ outcome.err = "SelectorError"
        /\ \E n \in Names :
              /\ MatchCount(n) >= 2
              /\ outcome.details =
                    DetailsN("Selector found more than one value", MatchCount(n))

\* C3 amended: if any mapping selects two or more values, record building
\* fails and returns no record, and no value of such a mapping is ever
\* written; the error is that of the mapping at which the iteration stopped:
\* SelectorError stating the match count when that mapping is one with
\* several matches, the error of another failing mapping when that one came
\* first.
C3_ManyMatchesFail ==
    (\E n \in Names : MatchCount(n) >= 2) =>
        /\ \A n \in Names : MatchCount(n) >= 2 => n \notin Keys(Written(query))
        /\ Finished =>
              /\ ~outcome.ok
              /\ outcome \in ErrorsOf(last)
              /\ MatchCount(last) >= 2 =>
                    outcome = Err("SelectorError",
                                  DetailsN("Selector found more than one value",
                                           MatchCount(last)))

\* a mapping with two matches has ended a call that had already accumulated
\* a value
C3_Witness ==
    /\ Finished
    /\ outcome = Err("SelectorError", DetailsN("Selector found more than one value", 2))
    /\ num = 1
    /\ MatchCount(last) = 2

\* C4: a mapping that selects nothing raises no error, writes no entry under
\* its name and does not count; the mappings after it are still evaluated (a
\* call succeeds only once every mapping has been visited).
C4_NoMatchContributesNothing ==
    /\ \A n \in Names : MatchCount(n) = 0 =>
          /\ n \notin Keys(Written(query))
          /\ last = n => (~Finished \/ outcome.ok)
    /\ num <= Cardinality({m \in Names \ pending : MatchCount(m) # 0})
    /\ (Finished /\ outcome.ok) =>
          /\ pending = {}
          /\ outcome.v.num = num
          /\ \A n \in Names : Contributes(n) => n \in Keys(Written(outcome.v.query))

\* a mapping that selected nothing was visited, and a mapping visited after
\* it has written its value
C4_Witness ==
    /\ Finished
    /\ outcome.ok
    /\ \E n \in Names : MatchCount(n) = 0
    /\ Contributes(last)
    /\ Len(Written(outcome.v.query)) = 1

\* C5: when record building succeeds, the count is the number of mappings
\* that matched exactly one value and coerced, and the entries added (to the
\* payload for fields, to the metadata for tags) are those mappings'
\* destination names with their coerced values, each once.
C5_CountAndKeys ==
    (Finished /\ outcome.ok) =>
        LET w == Written(outcome.v.query)
        IN /\ outcome.v.num = Cardinality({n \in Names : Contributes(n)})
           /\ Keys(w) = {n \in Names : Contributes(n)}
           /\ Len(w) = Cardinality(Keys(w))
           /\ \A i \in DOMAIN w : w[i][2] = Coerced(w[i][1]).v
           /\ Untouched(outcome.v.query) = <<>>

\* tags were built, two mappings contributed
C5_Witness ==
    /\ Finished
    /\ outcome.ok
    /\ dest = "tag"
    /\ outcome.v.num = 2
    /\ Len(outcome.v.query.tags) = 2

\* the same result: the same entries and count, or the same kind of error
SameResult(a, b) ==
    /\ a.ok = b.ok
    /\ a.ok => (/\ Entries(Written(a.v.query)) = Entries(Written(b.v.query))
                /\ a.v.num = b.v.num)
    /\ ~a.ok => a.err = b.err

InOrder(o) == add_to_query(EmptyQuery, mappings, doc, dest, o)

\* C8 as stated: every iteration order yields the same outcome, the same
\* error kind included.
C8_OrderIndependent ==
    (Finished /\ NoEvaluatorFailure) =>
        \A o \in Orders(Names) : SameResult(outcome, InOrder(o))

\* C8 amended: every iteration order yields the same verdict (success or
\* failure), on success the same entries and the same count; on failure the
\* error is that of the failing mapping the order reaches first, so two
\* orders may report different errors.
C8_OrderIndependentVerdict ==
    Finished =>
        \A o \in Orders(Names) :
            LET r == InOrder(o)
            IN /\ r.ok = outcome.ok
               /\ r.ok => SameResult(outcome, r)
               /\ ~r.ok => (/\ r \in UNION {ErrorsOf(n) : n \in Names}
                            /\ outcome \in UNION {ErrorsOf(n) : n \in Names})

\* two mappings contributed, in an order that is not the only one
C8_Witness ==
    /\ Finished
    /\ outcome.ok
    /\ outcome.v.num = 2
    /\ \E o \in Orders(Names) :
          Written(InOrder(o).v.query) # Written(outcome.v.query)

----------------------------------------------------------------------------
(* The request handler: properties of handle, under Spec                   *)

PayloadParses == event.data.kind # "Absent" /\ event.data.json.ok

\* what a field path selects from the payload, a tag path from the envelope
FieldSelected(n) == event.data.json.v[processor.fields[n].path]

TagSelected(n) == event.envelope[processor.tags[n].path]

\* a selection a mapping of this type gets through: nothing, or one value
\* that coerces
Passes(type, sel) ==
    /\ sel.ok
    /\ Len(sel.v) <= 1
    /\ Len(sel.v) = 1 => convert(type, sel.v[1]).ok

Counts(type, sel) == sel.ok /\ Len(sel.v) = 1 /\ convert(type, sel.v[1]).ok

\* C1 as stated: an event whose payload matches no field mapping ends in
\* NoContent, whatever the tag mappings would do on the envelope: no tag is
\* evaluated, and no SelectorError or PayloadParseError of a tag is returned.
C1_NoFieldsNoContent ==
    ( /\ pc = "done"
      /\ PayloadParses
      /\ \A n \in Names : FieldSelected(n) = Ok(<<>>) )
    => response = NoContent

\* C2: the store client is called at most once per request, and only when the
\* payload parsed, every field and every tag mapping passed, and at least one
\* field counted; a store failure is answered, not retried.
C2_StoreCalledAtMostOnce ==
    /\ storeCalls \in {0, 1}
    /\ (pc = "awaiting" \/ response.status \in {"Accepted", "InternalServerError"})
          => storeCalls = 1
    /\ storeCalls = 1 =>
          /\ PayloadParses
          /\ \A n \in Names : Passes(processor.fields[n].type, FieldSelected(n))
          /\ \A n \in TagNames : Passes(processor.tags[n].type, TagSelected(n))
          /\ \E n \in Names : Counts(processor.fields[n].type, FieldSelected(n))
          /\ hquery.fields # <<>>

\* the store has failed, the request is answered, and the call was the only one
C2_Witness ==
    /\ pc = "done"
    /\ response.status = "InternalServerError"
    /\ storeCalls = 1

----------------------------------------------------------------------------
(* Startup: properties of init and config, under SpecStart                 *)

EqualsIgnoringCase(a, b) ==
    /\ Len(a) = Len(b)
    /\ \A i \in 1..Len(a) : LowerChar(a[i]) = LowerChar(b[i])

Among(h, words) == \E w \in words : EqualsIgnoringCase(h, w)

\* the hint table of the specification
HintTable ==
    << <<{<<"b", "o", "o", "l">>, <<"b", "o", "o", "l", "e", "a", "n">>}, "Boolean">>,
       <<{<<"f", "l", "o", "a", "t">>, <<"n", "u", "m", "b", "e", "r">>}, "Float">>,
       <<{<<"i", "n", "t">>, <<"i", "n", "t", "e", "g", "e", "r">>}, "SignedInteger">>,
       <<{<<"u", "i", "n", "t">>, <<"u", "n", "s", "i", "g", "n", "e", "d">>},
         "UnsignedInteger">>,
       <<{<<"s", "t", "r", "i", "n", "g">>, <<"t", "e", "x", "t">>}, "Text">>,
       <<{<<>>, <<"n", "o", "n", "e">>}, "None">> >>

Recognized(h) == \E i \in DOMAIN HintTable : Among(h, HintTable[i][1])

Resolved(h) == HintTable[CHOOSE i \in DOMAIN HintTable : Among(h, HintTable[i][1])][2]

\* the FIELD_ entry the loop has just taken, its expression a valid one
FieldTaken ==
    /\ cur # NoEntry
    /\ cur[1] = "FIELD_"
    /\ env[cur] \in ValidPaths

HintKey == <<"TYPE_">> \o cur

FieldName == to_lowercase(Tail(cur))

\* C9: a field's hint is resolved ignoring case by the table, an absent hint
\* entry and the empty string resolve to None, any other hint fails with the
\* unknown-type error; a tag mapping is always None.
C9_HintResolution ==
    /\ FieldTaken =>
          IF HintKey \notin DOMAIN env
          THEN /\ initResult = NotStarted \/ initResult.ok
               /\ fields[FieldName] = Path(env[cur], "None")
          ELSE IF Recognized(env[HintKey])
               THEN /\ initResult = NotStarted \/ initResult.ok
                    /\ fields[FieldName] = Path(env[cur], Resolved(env[HintKey]))
               ELSE /\ initResult # NotStarted
                    /\ ~initResult.ok
                    /\ initResult.err = "UnknownType"
    /\ \A n \in DOMAIN tags : tags[n].type = "None"

\* FIELD_Temp with TYPE_FIELD_Temp = UINT has become an UnsignedInteger
\* mapping, beside a tag that has a TYPE_FIELD_ entry of its own name
C9_Witness ==
    /\ cur = FieldKey
    /\ TypeKey \in DOMAIN env
    /\ env[TypeKey] = <<"U", "I", "N", "T">>
    /\ <<"t", "e", "m", "p">> \in DOMAIN fields
    /\ fields[<<"t", "e", "m", "p">>].type = "UnsignedInteger"
    /\ TagTypeKey \in DOMAIN env
    /\ <<"s", "r", "c">> \in DOMAIN tags

ConfigurationError ==
    /\ initResult # NotStarted
    /\ ~initResult.ok
    /\ initResult.err \in {"PathSyntaxError", "UnknownType"}

\* C10 as stated: a malformed path or an unknown type keyword is fatal at
\* startup: no mapping set is made available, and the configuration of the
\* service never completes so as to let it go on to take requests.
C10_ConfigurationErrorFatal ==
    ConfigurationError => (appData = None /\ phase # "configured")

====
